---------------------------- MODULE Spec2Model ----------------------------
(***************************************************************************)
(* Model of the dual-mode analysis execution engine of agents/advanced:    *)
(* the FastAPI handlers and the background task of api_server.py, and the  *)
(* parallel / sequential coordinators of main.py.                          *)
(*                                                                         *)
(* Scheduling.  Every handler of api_server.py and run_analysis_background *)
(* are `async def` functions without a single `await`; they run on the one *)
(* asyncio event loop of the uvicorn process.  A handler therefore runs to *)
(* completion without interleaving with another handler, and the blocking  *)
(* calls made by run_analysis_background (run_parallel_execution,          *)
(* run_sequential_execution) keep the loop busy until they return or       *)
(* raise.  The only real threads are the two pool workers of               *)
(* run_parallel_execution and the thread that called it.  Starlette runs a *)
(* BackgroundTasks callback after the response has been sent.              *)
(*                                                                         *)
(* Time.  time.time() is the variable clock, counted in ticks of           *)
(* 1/TicksPerSecond seconds; it advances at any moment.                    *)
(***************************************************************************)
EXTENDS Integers, Sequences, FiniteSets, TLC

(* ---- bounds of the model ---------------------------------------------- *)
MaxClock == 2
TicksPerSecond == 2
MaxRequests == 2
MaxRunClock == 3

(* ---- program constants ------------------------------------------------ *)
max_workers == 2
ENABLE_PARALLEL_EXECUTION == TRUE

Stocks == {"TCS", "INFY"}
Modes == {"parallel", "sequential"}
\* execution_mode: str, any string is accepted
ModeStrings == Modes \cup {"turbo"}
None == "None"

VARIABLES
    clock,          \* time.time(), in ticks
    task_results,   \* the dict task_results, in insertion order
    requests,       \* the POST /analyze requests accepted so far
    loop,           \* request whose background task occupies the event loop, 0 = idle
    pc,             \* position of the thread executing the background task
    locals,         \* local variables of the background task and its coordinator
    futures,        \* state of the two Phase 1 futures and of their crew calls
    response,       \* the HTTP response sent by the last step, if it sent one
    returned,       \* the value a coordinator returned in the last step, if one did
    measured        \* history: how long the crew calls of the current or last run ran

vars == <<clock, task_results, requests, loop, pc, locals, futures, response,
          returned, measured>>

(* ---- the dict task_results -------------------------------------------- *)
(* A Python dict iterates in insertion order; assigning to a key that is   *)
(* present keeps the key's position, del removes the key.                  *)
HasKey(d, k) == \E i \in DOMAIN d : d[i].key = k

DictGet(d, k) == d[CHOOSE i \in DOMAIN d : d[i].key = k].value

\* a list that is appended to on every write
DictSetAppends(d, k, v) == Append(d, [key |-> k, value |-> v])

DictSet(d, k, v) ==
    IF HasKey(d, k)
    THEN [i \in DOMAIN d |-> IF d[i].key = k THEN [key |-> k, value |-> v] ELSE d[i]]
    ELSE Append(d, [key |-> k, value |-> v])

\* d.items(), newest first
ItemsNewestFirst(d) == [i \in DOMAIN d |-> d[Len(d) + 1 - i]]

\* d.items()
Items(d) == d

DictDel(d, k) == SelectSeq(d, LAMBDA e : e.key # k)

\* data.get(field): the value, or None when the field is absent
Get(data, field) == IF field \in DOMAIN data THEN data[field] ELSE None

(* ---- task ids ---------------------------------------------------------- *)
\* f"{request.stock}_{time.time()}": the timestamp at the resolution of the clock
TaskIdPerTick(stock, now) == stock \o "_" \o ToString(now)

\* f"{request.stock}_{int(time.time())}"
TaskId(stock, now) == stock \o "_" \o ToString(now \div TicksPerSecond)

TaskIds == {TaskId(s, t) : s \in Stocks, t \in 0..MaxClock}

(* ---- initial state ----------------------------------------------------- *)
Phase1 == {"financial", "news"}

NoRequest == [stock |-> None, execution_mode |-> None]

NoLocals == [start_time |-> 0, parallel_start |-> 0, parallel_time |-> 0,
             analysis_start |-> 0, sequential_start |-> 0, exc |-> None,
             request |-> NoRequest,
             calls |-> [c \in {"financial", "news", "analysis", "sequential"}
                            |-> 0]]

NoReturn == [of |-> "none"]

\* value of loop while POST /analyze/sync occupies the event loop
SyncLoop == 0 - 1

\* value of loop while main() of main.py runs.  The command line program is
\* a process of its own with its own coordinator; it shares nothing with the
\* server, so its runs are taken one at a time with the server's.
MainLoop == 0 - 2

Crews == Phase1 \cup {"analysis", "sequential"}

\* of the current run, or of the last one when none is in progress:
\* dur[c]: ticks during which the kickoff of crew c was in progress;
\* overhead: some tick of the run passed outside the crew calls
NoMeasure == [dur |-> [c \in Crews |-> 0], overhead |-> FALSE]

NoResponse == [op |-> "none", code |-> 0]

\* "none": not submitted, "pending": submitted, "running": crew.kickoff in
\* progress, "returned" / "raised": the call has ended
NoFutures == [f \in Phase1 |-> "none"]

Init ==
    /\ clock = 0
    /\ task_results = <<>>
    /\ requests = <<>>
    /\ loop = 0
    /\ pc = "idle"
    /\ locals = NoLocals
    /\ futures = NoFutures
    /\ response = NoResponse
    /\ returned = NoReturn
    /\ measured = NoMeasure

\* time passes
Tick ==
    /\ clock < MaxClock
    /\ clock' = clock + 1
    /\ response' = NoResponse
    /\ returned' = NoReturn
    /\ UNCHANGED <<task_results, requests, loop, pc, locals, futures, measured>>

\* time passes, and the history records where it went
CallInProgress(c) == IF c \in Phase1 THEN futures[c] = "running" ELSE pc = c

Accounted ==
    \/ pc \in {"analysis", "sequential"}
    \/ /\ pc \in {"await_financial", "await_news", "pool_exit"}
       /\ \A f \in Phase1 : futures[f] \notin {"none", "pending"}
       /\ \E f \in Phase1 : futures[f] = "running"

TickMeasured ==
    /\ clock < MaxRunClock
    /\ clock' = clock + 1
    /\ measured' =
         [dur |-> [c \in Crews |-> measured.dur[c]
                                    + IF CallInProgress(c) THEN 1 ELSE 0],
          overhead |-> measured.overhead \/ (loop # 0 /\ ~Accounted)]
    /\ response' = NoResponse
    /\ returned' = NoReturn
    /\ UNCHANGED <<task_results, requests, loop, pc, locals, futures>>

(* ---- POST /analyze ----------------------------------------------------- *)
start_analysis(stock, mode) ==
    /\ loop = 0
    /\ Len(requests) < MaxRequests
    /\ LET task_id == TaskId(stock, clock) IN
        /\ requests' = Append(requests,
                [task_id |-> task_id, stock |-> stock,
                 execution_mode |-> mode, phase |-> "queued"])
        /\ response' = [op |-> "analyze", code |-> 200, status |-> "started",
                        task_id |-> task_id]
    /\ returned' = NoReturn
    /\ UNCHANGED <<clock, task_results, loop, pc, locals, futures, measured>>

(* ---- run_analysis_background ------------------------------------------ *)
\* execution_mode != "sequential"
IsNotSequential(mode) == mode # "sequential"

\* execution_mode == "parallel"
IsParallel(mode) == mode = "parallel"

RunningRecord(req, start_time) ==
    [status |-> "running", start_time |-> start_time, stock |-> req.stock,
     execution_mode |-> req.execution_mode]

\* Starlette starts the background task of request r: the RUNNING record is
\* written first
run_analysis_background(r) ==
    /\ loop = 0
    /\ requests[r].phase = "queued"
    /\ loop' = r
    /\ requests' = [requests EXCEPT ![r].phase = "running"]
    /\ locals' = [NoLocals EXCEPT !.start_time = clock]
    /\ task_results' = DictSet(task_results, requests[r].task_id,
                               RunningRecord(requests[r], clock))
    /\ pc' = IF IsParallel(requests[r].execution_mode)
             THEN "parallel_start" ELSE "sequential_start"
    /\ response' = NoResponse
    /\ returned' = NoReturn
    /\ measured' = NoMeasure
    /\ UNCHANGED <<clock, futures>>

\* an exception that leaves a handler is answered by FastAPI with status 500
Unhandled(op, task_id, exc) ==
    [op |-> op, code |-> 500, task_id |-> task_id, error |-> exc]

\* an exception that leaves main() ends the process with a traceback
Traceback(exc) == [op |-> "main", code |-> 1, error |-> exc]

\* analyze_sync or main() ends: its response or output, or what an
\* unhandled exception makes of it
Respond(resp) ==
    /\ response' = resp
    /\ loop' = 0
    /\ pc' = "idle"
    /\ locals' = NoLocals
    /\ futures' = NoFutures
    /\ UNCHANGED <<clock, task_results, requests, measured>>

\* an exception leaves run_analysis_background: nothing catches it, the
\* record is left as it is
Propagate(exc) ==
    /\ exc # None
    /\ returned' = NoReturn
    /\ IF loop \in {SyncLoop, MainLoop}
       THEN Respond(IF loop = SyncLoop
                    THEN Unhandled("analyze_sync", None, exc)
                    ELSE Traceback(exc))
       ELSE /\ requests' = [requests EXCEPT ![loop].phase = "raised"]
            /\ loop' = 0
            /\ pc' = "idle"
            /\ locals' = NoLocals
            /\ futures' = NoFutures
            /\ response' = NoResponse
            /\ UNCHANGED <<clock, task_results, measured>>

\* the background task returns after writing its COMPLETED record
Complete(record) ==
    /\ task_results' = DictSet(task_results, requests[loop].task_id, record)
    /\ requests' = [requests EXCEPT ![loop].phase = "done"]
    /\ loop' = 0
    /\ pc' = "idle"
    /\ locals' = NoLocals
    /\ futures' = NoFutures
    /\ response' = NoResponse
    /\ UNCHANGED <<clock, measured>>

(* ---- run_parallel_execution -------------------------------------------- *)
submit_financial ==
    /\ pc = "parallel_start"
    /\ locals' = [locals EXCEPT !.parallel_start = clock]
    /\ futures' = [futures EXCEPT !["financial"] = "pending"]
    /\ pc' = "submit_news"
    /\ response' = NoResponse
    /\ returned' = NoReturn
    /\ UNCHANGED <<clock, task_results, requests, loop, measured>>

submit_news ==
    /\ pc = "submit_news"
    /\ futures' = [futures EXCEPT !["news"] = "pending"]
    /\ pc' = "await_financial"
    /\ response' = NoResponse
    /\ returned' = NoReturn
    /\ UNCHANGED <<clock, task_results, requests, loop, locals, measured>>

InProgress == {f \in Phase1 : futures[f] = "running"}

\* a pool in which one worker serves both calls in turn
run_crew_task_single_worker(f) ==
    /\ futures[f] = "pending"
    /\ InProgress = {}
    /\ futures' = [futures EXCEPT ![f] = "running"]
    /\ locals' = [locals EXCEPT !.calls[f] = @ + 1]
    /\ response' = NoResponse
    /\ returned' = NoReturn
    /\ UNCHANGED <<clock, task_results, requests, loop, pc, measured>>

\* a pool worker picks the call up: run_crew_task enters crew.kickoff
run_crew_task(f) ==
    /\ futures[f] = "pending"
    /\ Cardinality(InProgress) < max_workers
    /\ futures' = [futures EXCEPT ![f] = "running"]
    /\ locals' = [locals EXCEPT !.calls[f] = @ + 1]
    /\ response' = NoResponse
    /\ returned' = NoReturn
    /\ UNCHANGED <<clock, task_results, requests, loop, pc, measured>>

\* a call that raised is submitted again
kickoff_ends_retried(f, outcome) ==
    /\ futures[f] = "running"
    /\ futures' = [futures EXCEPT ![f] = IF outcome = "raised"
                                         THEN "pending" ELSE outcome]
    /\ response' = NoResponse
    /\ returned' = NoReturn
    /\ UNCHANGED <<clock, task_results, requests, loop, pc, locals, measured>>

\* crew.kickoff returns, or raises
kickoff_ends(f, outcome) ==
    /\ futures[f] = "running"
    /\ futures' = [futures EXCEPT ![f] = outcome]
    /\ response' = NoResponse
    /\ returned' = NoReturn
    /\ UNCHANGED <<clock, task_results, requests, loop, pc, locals, measured>>

\* the future holds a result or an exception
FutureDoneOnceStarted(f) == futures[f] \in {"running", "returned", "raised"}

FutureDone(f) == futures[f] \in {"returned", "raised"}

\* for future in as_completed(...): future.result()
await_financial_as_completed ==
    /\ pc = "await_financial"
    /\ FutureDone("financial") \/ futures["news"] = "raised"
    /\ IF futures["news"] = "raised"
       THEN /\ locals' = [locals EXCEPT !.exc = "news"]
            /\ pc' = "pool_exit"
       ELSE IF futures["financial"] = "raised"
       THEN /\ locals' = [locals EXCEPT !.exc = "financial"]
            /\ pc' = "pool_exit"
       ELSE /\ locals' = locals
            /\ pc' = "await_news"
    /\ response' = NoResponse
    /\ returned' = NoReturn
    /\ UNCHANGED <<clock, task_results, requests, loop, futures, measured>>

\* financial_future.result() inside try/except: pass
await_financial_swallows ==
    /\ pc = "await_financial"
    /\ FutureDone("financial")
    /\ locals' = locals
    /\ pc' = "await_news"
    /\ response' = NoResponse
    /\ returned' = NoReturn
    /\ UNCHANGED <<clock, task_results, requests, loop, futures, measured>>

\* financial_future.result()
await_financial ==
    /\ pc = "await_financial"
    /\ FutureDone("financial")
    /\ IF futures["financial"] = "raised"
       THEN /\ locals' = [locals EXCEPT !.exc = "financial"]
            /\ pc' = "pool_exit"
       ELSE /\ locals' = locals
            /\ pc' = "await_news"
    /\ response' = NoResponse
    /\ returned' = NoReturn
    /\ UNCHANGED <<clock, task_results, requests, loop, futures, measured>>

\* news_future.result()
await_news ==
    /\ pc = "await_news"
    /\ FutureDone("news")
    /\ locals' = [locals EXCEPT
                    !.exc = IF futures["news"] = "raised" THEN "news" ELSE None]
    /\ pc' = "pool_exit"
    /\ response' = NoResponse
    /\ returned' = NoReturn
    /\ UNCHANGED <<clock, task_results, requests, loop, futures, measured>>

\* leaving the `with ThreadPoolExecutor` block: shutdown(wait=True) joins the
\* workers; a pending exception then propagates, otherwise Phase 1 is timed
\* only the call whose result was awaited first is waited for
PoolJoinedFinancialOnly == FutureDone("financial")

\* executor.shutdown(wait=False)
PoolNotJoined == TRUE

\* executor.shutdown(wait=True): the workers have finished their calls
PoolJoined == \A f \in Phase1 : FutureDone(f)

pool_exit ==
    /\ pc = "pool_exit"
    /\ PoolJoined
    /\ IF locals.exc # None
       THEN Propagate(locals.exc)
       ELSE /\ locals' = [locals EXCEPT
                            !.parallel_time = clock - locals.parallel_start,
                            !.parallel_start = 0]  \* not read again
            /\ pc' = "analysis_start"
            /\ response' = NoResponse
            /\ returned' = NoReturn
            /\ UNCHANGED <<clock, task_results, requests, loop, futures, measured>>

\* analysis_time measured from start_time
analysis_start_from_start_time ==
    /\ pc = "analysis_start"
    /\ locals' = [locals EXCEPT !.analysis_start = locals.start_time,
                                !.calls["analysis"] = @ + 1]
    /\ pc' = "analysis"
    /\ response' = NoResponse
    /\ returned' = NoReturn
    /\ UNCHANGED <<clock, task_results, requests, loop, futures, measured>>

\* Phase 2: analysis_crew.kickoff is entered
analysis_start ==
    /\ pc = "analysis_start"
    /\ locals' = [locals EXCEPT !.analysis_start = clock,
                                !.calls["analysis"] = @ + 1]
    /\ pc' = "analysis"
    /\ response' = NoResponse
    /\ returned' = NoReturn
    /\ UNCHANGED <<clock, task_results, requests, loop, futures, measured>>

\* what crew.kickoff returns: the output of the last task of the crew
CrewOutput(crew) ==
    CASE crew = "financial" -> "company_financials"
      [] crew = "news" -> "company_news"
      [] crew = "analysis" -> "advice"
      [] crew = "sequential" -> "advice"

\* return analysis_time, parallel_time
ParallelReturnSwapped(parallel_time, analysis_time, analysis_result) ==
    [of |-> "run_parallel_execution", parallel_time |-> analysis_time,
     analysis_time |-> parallel_time]

\* return parallel_time, analysis_time  (analysis_result is dropped)
ParallelReturn(parallel_time, analysis_time, analysis_result) ==
    [of |-> "run_parallel_execution", parallel_time |-> parallel_time,
     analysis_time |-> analysis_time]

\* estimated_sequential_time - execution_time
TimeSavedSum(parallel_time, analysis_time, execution_time) ==
    (parallel_time + analysis_time) - execution_time

TimeSaved(parallel_time, analysis_time, execution_time) ==
    (parallel_time * 2 + analysis_time) - execution_time

\* execution_time without the analysis phase
ParallelRecordPhaseOneOnly(req, execution_time, parallel_time, analysis_time) ==
    [status |-> "completed", execution_time |-> parallel_time,
     parallel_time |-> parallel_time, analysis_time |-> analysis_time,
     time_saved |-> TimeSaved(parallel_time, analysis_time, parallel_time),
     stock |-> req.stock, execution_mode |-> req.execution_mode]

ParallelRecord(req, execution_time, parallel_time, analysis_time) ==
    [status |-> "completed", execution_time |-> execution_time,
     parallel_time |-> parallel_time, analysis_time |-> analysis_time,
     time_saved |-> TimeSaved(parallel_time, analysis_time, execution_time),
     stock |-> req.stock, execution_mode |-> req.execution_mode]

\* the AnalysisResponse of analyze_sync, parallel mode
SyncParallelResponse(req, execution_time, parallel_time, analysis_time) ==
    [op |-> "analyze_sync", code |-> 200, status |-> "completed",
     stock |-> req.stock, execution_time |-> execution_time,
     parallel_time |-> parallel_time, analysis_time |-> analysis_time,
     time_saved |-> TimeSaved(parallel_time, analysis_time, execution_time),
     task_id |-> None]

\* what main() prints after a parallel run
MainParallelOutput(execution_time, parallel_time, analysis_time) ==
    [op |-> "main", code |-> 0, execution_time |-> execution_time,
     parallel_time |-> parallel_time, analysis_time |-> analysis_time,
     time_saved |-> TimeSaved(parallel_time, analysis_time, execution_time)]

\* analysis_crew.kickoff returns: run_parallel_execution returns and its
\* caller writes the COMPLETED record, or sends the response of analyze_sync
analysis_returns ==
    /\ pc = "analysis"
    /\ LET ret == ParallelReturn(locals.parallel_time,
                                 clock - locals.analysis_start,
                                 CrewOutput("analysis"))
           execution_time == clock - locals.start_time
       IN /\ returned' = ret
          /\ CASE loop = SyncLoop ->
                    Respond(SyncParallelResponse(locals.request, execution_time,
                                ret.parallel_time, ret.analysis_time))
               [] loop = MainLoop ->
                    Respond(MainParallelOutput(execution_time,
                                ret.parallel_time, ret.analysis_time))
               [] OTHER ->
                    Complete(ParallelRecord(requests[loop], execution_time,
                                ret.parallel_time, ret.analysis_time))

analysis_raises ==
    /\ pc = "analysis"
    /\ Propagate("analysis")

(* ---- run_sequential_execution ------------------------------------------ *)
sequential_start ==
    /\ pc = "sequential_start"
    /\ locals' = [locals EXCEPT !.sequential_start = clock,
                                !.calls["sequential"] = @ + 1]
    /\ pc' = "sequential"
    /\ response' = NoResponse
    /\ returned' = NoReturn
    /\ UNCHANGED <<clock, task_results, requests, loop, futures, measured>>

\* return sequential_time, 0  (result is dropped)
SequentialReturn(sequential_time, result) ==
    [of |-> "run_sequential_execution", sequential_time |-> sequential_time,
     analysis_time |-> 0]

\* the record of the parallel branch, written by the other branch too
SequentialRecordWithMetrics(req, execution_time) ==
    [status |-> "completed", execution_time |-> execution_time,
     parallel_time |-> execution_time, analysis_time |-> 0,
     time_saved |-> 0,
     stock |-> req.stock, execution_mode |-> req.execution_mode]

SequentialRecord(req, execution_time) ==
    [status |-> "completed", execution_time |-> execution_time,
     stock |-> req.stock, execution_mode |-> req.execution_mode]

\* the AnalysisResponse of analyze_sync, any other mode
SyncSequentialResponse(req, execution_time) ==
    [op |-> "analyze_sync", code |-> 200, status |-> "completed",
     stock |-> req.stock, execution_time |-> execution_time,
     parallel_time |-> None, analysis_time |-> None, time_saved |-> None,
     task_id |-> None]

\* what main() prints after a sequential run
MainSequentialOutput(execution_time) ==
    [op |-> "main", code |-> 0, execution_time |-> execution_time]

sequential_returns ==
    /\ pc = "sequential"
    /\ LET ret == SequentialReturn(clock - locals.sequential_start,
                                   CrewOutput("sequential"))
           execution_time == clock - locals.start_time
       IN /\ returned' = ret
          /\ CASE loop = SyncLoop ->
                    Respond(SyncSequentialResponse(locals.request, execution_time))
               [] loop = MainLoop ->
                    Respond(MainSequentialOutput(execution_time))
               [] OTHER ->
                    Complete(SequentialRecord(requests[loop], execution_time))

sequential_raises ==
    /\ pc = "sequential"
    /\ Propagate("sequential")

(* ---- POST /analyze/sync ------------------------------------------------ *)
\* the handler starts; it ends in analysis_returns, sequential_returns or
\* Propagate
\* analyze_sync keeping a record like the background path
analyze_sync_recorded(stock, mode) ==
    /\ loop = 0
    /\ loop' = SyncLoop
    /\ locals' = [NoLocals EXCEPT
                    !.start_time = clock,
                    !.request = [stock |-> stock, execution_mode |-> mode]]
    /\ task_results' = DictSet(task_results, TaskId(stock, clock),
                               RunningRecord([stock |-> stock,
                                              execution_mode |-> mode], clock))
    /\ pc' = IF IsParallel(mode) THEN "parallel_start" ELSE "sequential_start"
    /\ response' = NoResponse
    /\ returned' = NoReturn
    /\ measured' = NoMeasure
    /\ UNCHANGED <<clock, requests, futures>>

analyze_sync(stock, mode) ==
    /\ loop = 0
    /\ loop' = SyncLoop
    /\ locals' = [NoLocals EXCEPT
                    !.start_time = clock,
                    !.request = [stock |-> stock, execution_mode |-> mode]]
    /\ pc' = IF IsParallel(mode) THEN "parallel_start" ELSE "sequential_start"
    /\ response' = NoResponse
    /\ returned' = NoReturn
    /\ measured' = NoMeasure
    /\ UNCHANGED <<clock, task_results, requests, futures>>

(* ---- main() of main.py -------------------------------------------------- *)
\* --parallel and --sequential override ENABLE_PARALLEL_EXECUTION
UseParallel(parallel, sequential) ==
    IF parallel THEN TRUE
    ELSE IF sequential THEN FALSE
    ELSE ENABLE_PARALLEL_EXECUTION

main(stock, parallel, sequential) ==
    /\ loop = 0
    /\ loop' = MainLoop
    /\ locals' = [NoLocals EXCEPT
                    !.start_time = clock,
                    !.request = [stock |-> stock,
                                 execution_mode |->
                                    IF UseParallel(parallel, sequential)
                                    THEN "parallel" ELSE "sequential"]]
    /\ pc' = IF UseParallel(parallel, sequential)
             THEN "parallel_start" ELSE "sequential_start"
    /\ response' = NoResponse
    /\ returned' = NoReturn
    /\ measured' = NoMeasure
    /\ UNCHANGED <<clock, task_results, requests, futures>>

(* ---- GET /status/{task_id}, GET /tasks, DELETE /tasks/{task_id} --------- *)
get_task_status(task_id) ==
    /\ loop = 0
    /\ response' =
        IF HasKey(task_results, task_id)
        THEN LET task_data == DictGet(task_results, task_id) IN
             [op |-> "status", code |-> 200, task_id |-> task_id,
              status |-> task_data.status,
              result |-> Get(task_data, "results"),
              execution_time |-> Get(task_data, "execution_time"),
              error |-> Get(task_data, "error")]
        ELSE Unhandled("status", task_id, "KeyError")
    /\ returned' = NoReturn
    /\ UNCHANGED <<clock, task_results, requests, loop, pc, locals, futures, measured>>

Summary(e) ==
    [task_id |-> e.key, status |-> e.value.status,
     stock |-> Get(e.value, "stock"),
     execution_mode |-> Get(e.value, "execution_mode"),
     execution_time |-> Get(e.value, "execution_time")]

list_tasks ==
    /\ loop = 0
    /\ response' = [op |-> "tasks", code |-> 200,
                    tasks |-> [i \in DOMAIN task_results |->
                                    Summary(Items(task_results)[i])]]
    /\ returned' = NoReturn
    /\ UNCHANGED <<clock, task_results, requests, loop, pc, locals, futures, measured>>

delete_task(task_id) ==
    /\ loop = 0
    /\ IF HasKey(task_results, task_id)
       THEN /\ task_results' = DictDel(task_results, task_id)
            /\ response' = [op |-> "delete", code |-> 200, task_id |-> task_id]
       ELSE /\ response' = Unhandled("delete", task_id, "KeyError")
            /\ UNCHANGED task_results
    /\ returned' = NoReturn
    /\ UNCHANGED <<clock, requests, loop, pc, locals, futures, measured>>

Next ==
    \/ Tick
    \/ \E s \in Stocks, m \in Modes : start_analysis(s, m)
    \/ \E r \in DOMAIN requests : run_analysis_background(r)
    \/ submit_financial
    \/ submit_news
    \/ \E f \in Phase1 : run_crew_task(f)
    \/ \E f \in Phase1, o \in {"returned", "raised"} : kickoff_ends(f, o)
    \/ await_financial
    \/ await_news
    \/ pool_exit
    \/ analysis_start
    \/ analysis_returns
    \/ analysis_raises
    \/ sequential_start
    \/ sequential_returns
    \/ sequential_raises
    \/ \E t \in TaskIds : get_task_status(t)
    \/ list_tasks
    \/ \E t \in TaskIds : delete_task(t)

\* the asynchronous API: POST /analyze, its background tasks, and the
\* registry operations
Spec == Init /\ [][Next]_vars

\* one run at a time, started by POST /analyze (a single request), by
\* POST /analyze/sync or by main(), with the durations of its crew calls
\* measured
NextTimed ==
    \/ TickMeasured
    \/ \E s \in Stocks, m \in ModeStrings :
            requests = <<>> /\ start_analysis(s, m)
    \/ \E r \in DOMAIN requests : run_analysis_background(r)
    \/ \E s \in Stocks, m \in ModeStrings : analyze_sync(s, m)
    \/ \E s \in Stocks, p, q \in BOOLEAN : main(s, p, q)
    \/ submit_financial
    \/ submit_news
    \/ \E f \in Phase1 : run_crew_task(f)
    \/ \E f \in Phase1, o \in {"returned", "raised"} : kickoff_ends(f, o)
    \/ await_financial
    \/ await_news
    \/ pool_exit
    \/ analysis_start
    \/ analysis_returns
    \/ analysis_raises
    \/ sequential_start
    \/ sequential_returns
    \/ sequential_raises
    \/ \E t \in TaskIds : get_task_status(t)
    \/ list_tasks
    \/ \E t \in TaskIds : delete_task(t)

SpecTimed == Init /\ [][NextTimed]_vars

(* ======================================================================= *)
(* Properties                                                              *)
(* ======================================================================= *)
Terminal == {"completed", "failed"}

Started(r) == loop = 0 /\ loop' = r

(* C1: starting a task under a task id that is already in the registry     *)
(* leaves the registry exactly as it was (the existing record is kept).    *)
C1_DuplicateStartKeepsRegistry ==
    [][\A r \in DOMAIN requests :
          (Started(r) /\ HasKey(task_results, requests[r].task_id))
              => task_results' = task_results]_vars

(* C2: no exception escapes the background execution: a background task   *)
(* never ends by raising.                                                  *)
C2_BackgroundNeverRaises ==
    \A r \in DOMAIN requests : requests[r].phase # "raised"

(* C3: when POST /analyze has returned a task id, the registry holds a     *)
(* record under that id.                                                   *)
C3_RecordWrittenBeforeResponse ==
    response.op = "analyze" => HasKey(task_results, response.task_id)

(* C4: once the coordinator of an accepted task has stopped and no other   *)
(* run is queued or in progress under the same id, the record of the task, *)
(* if it is still in the registry, is COMPLETED or FAILED.                 *)
C4_StoppedTaskIsTerminal ==
    \A r \in DOMAIN requests :
        ( /\ requests[r].phase \in {"done", "raised"}
          /\ HasKey(task_results, requests[r].task_id)
          /\ \A q \in DOMAIN requests :
                requests[q].task_id = requests[r].task_id
                    => requests[q].phase \in {"done", "raised"} )
        => DictGet(task_results, requests[r].task_id).status \in Terminal

(* C5: a record that is COMPLETED or FAILED never becomes RUNNING.         *)
C5_StatusMonotonic ==
    [][\A t \in TaskIds :
          ( /\ HasKey(task_results, t)
            /\ DictGet(task_results, t).status \in Terminal
            /\ HasKey(task_results', t) )
          => DictGet(task_results', t).status # "running"]_vars

(* C6: the stock and the execution mode stored under a task id never       *)
(* change.                                                                 *)
C6_RequestImmutable ==
    [][\A t \in TaskIds :
          (HasKey(task_results, t) /\ HasKey(task_results', t))
          => /\ DictGet(task_results', t).stock = DictGet(task_results, t).stock
             /\ DictGet(task_results', t).execution_mode
                    = DictGet(task_results, t).execution_mode]_vars

(* C7: a status query for a task id that is not in the registry is         *)
(* answered with NotFoundError, a 404.                                     *)
C7_StatusUnknownIsNotFound ==
    (response.op = "status" /\ ~HasKey(task_results, response.task_id))
        => (response.code = 404 /\ response.error = "NotFoundError")

(* C8: a delete either removes the record (which is then no longer in the  *)
(* registry) or, for an unknown id, is answered with NotFoundError, a 404. *)
C8_DeleteUnknownIsNotFound ==
    response.op = "delete"
        => \/ response.code = 200 /\ ~HasKey(task_results, response.task_id)
           \/ response.code = 404 /\ response.error = "NotFoundError"

(* C9: list_all returns one summary per record of the registry, in the     *)
(* order in which the records were inserted: no step changes the relative  *)
(* order of two records that stay, a new record goes behind all others,    *)
(* and the listing follows that order.                                     *)
Pos(d, k) == CHOOSE i \in DOMAIN d : d[i].key = k

InsertionOrderKept ==
    /\ \A i, j \in DOMAIN task_results :
          ( /\ i < j
            /\ HasKey(task_results', task_results[i].key)
            /\ HasKey(task_results', task_results[j].key) )
          => Pos(task_results', task_results[i].key)
                < Pos(task_results', task_results[j].key)
    /\ \A i, j \in DOMAIN task_results' :
          ( /\ ~HasKey(task_results, task_results'[i].key)
            /\ HasKey(task_results, task_results'[j].key) )
          => j < i

ListingFollowsRegistry ==
    response.op = "tasks" =>
        /\ Len(response.tasks) = Len(task_results)
        /\ \A i \in DOMAIN task_results :
              /\ response.tasks[i].task_id = task_results[i].key
              /\ response.tasks[i].status = task_results[i].value.status

C9_ListInInsertionOrder ==
    [](ListingFollowsRegistry) /\ [][InsertionOrderKept]_vars

\* a listing whose first record is still RUNNING and whose second is COMPLETED
C9_Witness ==
    /\ response.op = "tasks"
    /\ Len(response.tasks) = 2
    /\ response.tasks[1].status = "running"
    /\ response.tasks[2].status = "completed"

(* C10: while the analysis crew (Phase 2) runs, both Phase 1 calls of the  *)
(* run have completed; none is pending or in progress.                     *)
C10_Phase2AfterPhase1 ==
    pc \in {"analysis_start", "analysis"}
        => \A f \in Phase1 : futures[f] = "returned"

C10_Witness ==
    pc = "analysis" /\ \A f \in Phase1 : futures[f] = "returned"

(* C11 as claimed: run_parallel fails fast; once a Phase 1 call has raised, *)
(* the coordinator is never held up in the join by the other call.         *)
InJoin == pc \in {"await_financial", "await_news", "pool_exit"}

C11_FailsFast ==
    (InJoin /\ \E f \in Phase1 : futures[f] = "raised")
        => ENABLED (await_financial \/ await_news \/ pool_exit)

(* C11 as amended: the exception of a Phase 1 call leaves run_parallel     *)
(* only after both Phase 1 calls have ended.                               *)
C11_PropagatesAfterJoin ==
    [][(pc = "pool_exit" /\ locals.exc # None /\ pc' = "idle")
          => \A f \in Phase1 : futures[f] \in {"returned", "raised"}]_vars

\* the financial call has raised and was awaited, the news call still runs
C11_Witness ==
    /\ pc = "pool_exit"
    /\ locals.exc = "financial"
    /\ futures["news"] = "running"

(* C12: both coordinators return a final result next to their timings, and *)
(* it is the same advisory output in the two execution modes.              *)
C12_ModesReturnSameResult ==
    returned # NoReturn
        => /\ "result" \in DOMAIN returned
           /\ returned.result = CrewOutput("analysis")
           /\ returned.result = CrewOutput("sequential")

(* ---- phase times ------------------------------------------------------- *)
Max(a, b) == IF a >= b THEN a ELSE b

\* the longer of the two Phase 1 crew calls of the current or last run
LongestPhase1Call == Max(measured.dur["financial"], measured.dur["news"])

\* C13: on a discrete clock with no scheduling overhead, the parallel-phase
\* time that run_parallel_execution returns is the longer of the two Phase 1
\* call durations, and the analysis-phase time it returns is the duration of
\* the Phase 2 call
C13_PhaseTimesAreCallDurations ==
    (returned.of = "run_parallel_execution" /\ ~measured.overhead)
        => /\ returned.parallel_time = LongestPhase1Call
           /\ returned.analysis_time = measured.dur["analysis"]

\* a run without overhead whose three calls took 1, 2 and 1 ticks has returned
C13_Witness ==
    /\ returned.of = "run_parallel_execution"
    /\ ~measured.overhead
    /\ measured.dur["financial"] = 1
    /\ measured.dur["news"] = 2
    /\ measured.dur["analysis"] = 1
    /\ returned.parallel_time = 2

\* C14: every completed parallel run reports
\* time_saved = 2 * parallel_time + analysis_time - execution_time, in the
\* record of the background path, in the response of analyze_sync and in the
\* output of main alike
C14_TimeSavedFormula ==
    /\ \A i \in DOMAIN task_results :
          LET v == task_results[i].value
          IN (v.status = "completed" /\ v.execution_mode = "parallel")
                => /\ "time_saved" \in DOMAIN v
                   /\ v.time_saved
                        = ((2 * v.parallel_time) + v.analysis_time)
                              - v.execution_time
    /\ (response.op \in {"analyze_sync", "main"}
            /\ returned.of = "run_parallel_execution")
          => response.time_saved
                = ((2 * response.parallel_time) + response.analysis_time)
                      - response.execution_time

\* Phase 1 of 2 ticks, Phase 2 of 1 tick, 3 ticks in all: 2 ticks saved
C14_Witness ==
    \E i \in DOMAIN task_results :
        LET v == task_results[i].value
        IN /\ v.status = "completed"
           /\ v.execution_mode = "parallel"
           /\ v.parallel_time = 2
           /\ v.analysis_time = 1
           /\ v.execution_time = 3
           /\ v.time_saved = 2

\* a background parallel run has just written its COMPLETED record
BackgroundParallelCompleted ==
    /\ returned.of = "run_parallel_execution"
    /\ loop = 0
    /\ response = NoResponse

\* the record has the phase times of the calls and their sum as total
ExactPhaseTimes ==
    \A r \in DOMAIN requests :
        requests[r].phase = "done" =>
            LET v == DictGet(task_results, requests[r].task_id)
            IN /\ v.status = "completed"
               /\ v.parallel_time = LongestPhase1Call
               /\ v.analysis_time = measured.dur["analysis"]
               /\ v.execution_time
                    = LongestPhase1Call + measured.dur["analysis"]

\* C15 as stated: a parallel run whose Phase 1 calls take A and B and whose
\* Phase 2 call takes C completes with parallel_time = max(A, B),
\* analysis_time = C and execution_time = max(A, B) + C
C15_ExactPhaseTimes == BackgroundParallelCompleted => ExactPhaseTimes

\* C15 amended: the same, when no time passes outside the crew calls
C15_ExactPhaseTimesNoOverhead ==
    (BackgroundParallelCompleted /\ ~measured.overhead) => ExactPhaseTimes

\* calls of 1 s, 1 s and 0.5 s: parallel_time 1 s, execution_time 1.5 s
C15_Witness ==
    /\ BackgroundParallelCompleted
    /\ ~measured.overhead
    /\ measured.dur["financial"] = TicksPerSecond
    /\ measured.dur["news"] = TicksPerSecond
    /\ measured.dur["analysis"] * 2 = TicksPerSecond
    /\ \E i \in DOMAIN task_results :
          /\ task_results[i].value.status = "completed"
          /\ task_results[i].value.execution_time * 2 = 3 * TicksPerSecond

(* ---- registry, task ids, results ---------------------------------------- *)
\* C16: a DELETE of the record of a task whose coordinator is in flight is
\* served, so that the coordinator's later write finds the record deleted
\* (and resurrects it) or recreated (and overwrites it)
C16_DeleteServedDuringRun ==
    loop > 0 => ENABLED delete_task(requests[loop].task_id)

\* C17: analyze_sync leaves the registry as it is from its start to its
\* response; when the coordinator returns the response is the completed view,
\* when it raises the response is an error
C17_SyncBypassesRegistry ==
    [][ /\ (loop = SyncLoop \/ loop' = SyncLoop) => task_results' = task_results
        /\ (loop = SyncLoop /\ loop' = 0) =>
              /\ response'.op = "analyze_sync"
              /\ IF returned' # NoReturn
                 THEN /\ response'.code = 200
                      /\ response'.status = "completed"
                      /\ response'.stock = locals.request.stock
                      /\ response'.execution_time = clock - locals.start_time
                 ELSE /\ response'.code = 500
                      /\ response'.error \in Crews ]_vars

\* the coordinator of analyze_sync raised while the registry held a record
C17_Witness ==
    /\ response.op = "analyze_sync"
    /\ response.code = 500
    /\ Len(task_results) > 0

\* v is one of the records that run_analysis_background writes, entire
WholeRecord(v) ==
    \/ /\ v.status = "running"
       /\ DOMAIN v = {"status", "start_time", "stock", "execution_mode"}
    \/ /\ v.status = "completed"
       /\ v.execution_mode = "parallel"
       /\ DOMAIN v = {"status", "execution_time", "parallel_time",
                      "analysis_time", "time_saved", "stock", "execution_mode"}
    \/ /\ v.status = "completed"
       /\ v.execution_mode # "parallel"
       /\ DOMAIN v = {"status", "execution_time", "stock", "execution_mode"}

C20_CompletedCarriesResult ==
    (response.op = "status" /\ response.code = 200
        /\ response.status = "completed")
      => /\ response.result # None
         /\ response.execution_time # None

(* ---- record fields ------------------------------------------------------ *)
ParallelMetrics == {"parallel_time", "analysis_time", "time_saved"}

\* C21: a record of the registry has a result payload only if its status is
\* COMPLETED, an error message only if its status is FAILED, and the parallel
\* metrics only if its execution mode is PARALLEL
C21_FieldsFollowStatusAndMode ==
    \A i \in DOMAIN task_results :
        LET v == task_results[i].value
        IN /\ "results" \in DOMAIN v => v.status = "completed"
           /\ "error" \in DOMAIN v => v.status = "failed"
           /\ (ParallelMetrics \cap DOMAIN v # {})
                 => v.execution_mode = "parallel"

\* a COMPLETED parallel record with its metrics next to a COMPLETED
\* sequential record without them
C21_Witness ==
    \E i, j \in DOMAIN task_results :
        LET v == task_results[i].value
            w == task_results[j].value
        IN /\ v.status = "completed" /\ v.execution_mode = "parallel"
           /\ ParallelMetrics \subseteq DOMAIN v
           /\ w.status = "completed" /\ w.execution_mode = "sequential"
           /\ ParallelMetrics \cap DOMAIN w = {}

(* ---- failures of Phase 1 ------------------------------------------------ *)
\* the positions of run_parallel_execution
InRunParallel ==
    pc \in {"parallel_start", "submit_news", "await_financial", "await_news",
            "pool_exit", "analysis_start", "analysis"}

SomePhase1Raised == \E f \in Phase1 : futures[f] = "raised"

\* the step ends the run with an exception at its caller: the background
\* task raises, analyze_sync answers 500, main() ends with a traceback
RaisesToCaller ==
    /\ pc' = "idle"
    /\ returned' = NoReturn
    /\ loop > 0 => requests'[loop].phase = "raised"
    /\ loop = SyncLoop => (response'.code = 500 /\ response'.error \in Phase1)
    /\ loop = MainLoop => (response'.code = 1 /\ response'.error \in Phase1)

\* C22: once a Phase 1 call of a run has raised, the analysis crew is not
\* invoked in that run, and the run ends with the exception at the caller of
\* run_parallel_execution, which returns nothing
C22_Phase1FailureSkipsPhase2 ==
    [][(InRunParallel /\ SomePhase1Raised)
          => /\ pc' \notin {"analysis_start", "analysis"}
             /\ pc' # pc => (pc' \in {"await_financial", "await_news", "pool_exit"}
                                \/ RaisesToCaller)
      ]_vars

\* the news call raised after the financial call returned, and the failure
\* is about to leave run_parallel_execution
C22_Witness ==
    /\ pc = "pool_exit"
    /\ futures["financial"] = "returned"
    /\ futures["news"] = "raised"
    /\ locals.exc = "news"

(* ---- the worker pool ---------------------------------------------------- *)
\* the crew calls of the run that are in progress
CallsInProgress == {c \in Crews : CallInProgress(c)}

\* C23: both Phase 1 calls are submitted before either result is awaited,
\* each of them finds a free worker as soon as it is submitted, and at no
\* time are more than 2 calls of the run in progress
C23_TwoWorkers ==
    /\ InJoin => \A f \in Phase1 : futures[f] # "none"
    /\ \A f \in Phase1 : futures[f] = "pending" => ENABLED run_crew_task(f)
    /\ Cardinality(CallsInProgress) <= max_workers

\* the financial call and the news call are in progress at the same time
C23_Witness ==
    /\ pc = "await_financial"
    /\ CallsInProgress = Phase1

(* ---- invocations of the crews ------------------------------------------- *)
\* a run has just returned to its caller without an exception
RunReturns(coordinator) == returned'.of = coordinator

\* C24: within one run no crew is invoked more than once; a run of
\* run_parallel_execution that returns has invoked the financial, news and
\* analysis crews once each and not the sequential crew; a run of
\* run_sequential_execution that returns has invoked the sequential crew
\* once, with no Phase 1 call submitted, and none of the other crews
C24_EachCrewOnce ==
    [][ /\ \A c \in Crews : locals'.calls[c] <= 1
        /\ RunReturns("run_parallel_execution") =>
              locals.calls = [c \in Crews |-> IF c = "sequential" THEN 0 ELSE 1]
        /\ RunReturns("run_sequential_execution") =>
              /\ locals.calls = [c \in Crews |-> IF c = "sequential" THEN 1 ELSE 0]
              /\ futures = NoFutures ]_vars

\* the analysis crew runs after one call of each Phase 1 crew
C24_Witness ==
    /\ pc = "analysis"
    /\ locals.calls = [c \in Crews |-> IF c = "sequential" THEN 0 ELSE 1]

(* ---- background execution ----------------------------------------------- *)
\* C25: a status query for a task is served while the coordinator of that
\* task is running, and the background task of another accepted request can
\* start while it runs
C25_StatusServedDuringRun ==
    loop > 0 =>
        /\ ENABLED get_task_status(requests[loop].task_id)
        /\ \A r \in DOMAIN requests :
              requests[r].phase = "queued" => ENABLED run_analysis_background(r)

(* ---- dispatch on the execution mode ------------------------------------- *)
InRunSequential == pc \in {"sequential_start", "sequential"}

\* the coordinator that runs is the one for the mode string
DispatchedBy(mode) ==
    /\ InRunParallel <=> mode = "parallel"
    /\ InRunSequential <=> mode # "parallel"

\* C26: a request with execution_mode "parallel" runs the parallel
\* coordinator, a request with any other mode string runs the sequential
\* coordinator and is recorded with that string, and no mode string is
\* rejected, by POST /analyze and by POST /analyze/sync alike
C26_DispatchIsTotal ==
    /\ loop > 0 => DispatchedBy(requests[loop].execution_mode)
    /\ loop = SyncLoop => DispatchedBy(locals.request.execution_mode)
    /\ \A i \in DOMAIN task_results :
          \E r \in DOMAIN requests :
              /\ requests[r].task_id = task_results[i].key
              /\ requests[r].execution_mode
                    = task_results[i].value.execution_mode
              /\ ParallelMetrics \subseteq DOMAIN task_results[i].value
                    => requests[r].execution_mode = "parallel"
    /\ response.op = "analyze" => response.code = 200
    /\ loop = 0 =>
          \A s \in Stocks, m \in ModeStrings :
              /\ ENABLED analyze_sync(s, m)
              /\ requests = <<>> => ENABLED start_analysis(s, m)

\* a request with a mode string that is neither "parallel" nor "sequential"
\* has run the sequential coordinator and is recorded with its string
C26_Witness ==
    \E i \in DOMAIN task_results :
        /\ task_results[i].value.execution_mode = "turbo"
        /\ task_results[i].value.status = "completed"
        /\ ParallelMetrics \cap DOMAIN task_results[i].value = {}

(* ---- leaving run_parallel_execution ------------------------------------- *)
\* the step leaves run_parallel_execution, by return or by exception
LeavesRunParallel == InRunParallel /\ pc' = "idle"

\* C27: when run_parallel_execution returns or raises, no Phase 1 call of
\* the run is pending or in progress, and both have been started
C27_NoCallOutlivesRun ==
    [][LeavesRunParallel => \A f \in Phase1 : FutureDone(f)]_vars

\* the financial call has raised, the news call has returned since, and the
\* exception is about to leave run_parallel_execution
C27_Witness ==
    /\ pc = "pool_exit"
    /\ locals.exc = "financial"
    /\ futures["financial"] = "raised"
    /\ futures["news"] = "returned"
    /\ ENABLED pool_exit

(* ---- order of the awaits ------------------------------------------------ *)
BothPhase1Raised == \A f \in Phase1 : futures[f] = "raised"

\* the exception that leaves the run, as its caller sees it
PropagatedIs(exc) ==
    /\ loop = SyncLoop => response'.error = exc
    /\ loop = MainLoop => response'.error = exc
    /\ locals.exc = exc

\* C28: the results of Phase 1 are awaited financial first, news second: a
\* news failure is seen only after the financial call has returned, and when
\* both calls have raised the exception that leaves run_parallel_execution
\* is the financial crew's
C28_FinancialAwaitedFirst ==
    [][ /\ locals'.exc = "news" => futures'["financial"] = "returned"
        /\ (pc = "await_financial" /\ pc' # pc) => FutureDone("financial")
        /\ (LeavesRunParallel /\ BothPhase1Raised) => PropagatedIs("financial")
      ]_vars

\* both calls have raised, the news call after a shorter time than the
\* financial call, and the exception held is the financial crew's
C28_Witness ==
    /\ pc = "pool_exit"
    /\ BothPhase1Raised
    /\ locals.exc = "financial"
    /\ measured.dur["news"] < measured.dur["financial"]

(* ---- bound on the time saved -------------------------------------------- *)
\* the timings t satisfy the bound
WithinBound(t) ==
    /\ t.execution_time >= t.parallel_time + t.analysis_time
    /\ t.time_saved <= t.parallel_time

\* C29: every completed parallel run has
\* execution_time >= parallel_time + analysis_time and so
\* time_saved <= parallel_time, in its record, in the response of
\* analyze_sync and in the output of main
C29_TimeSavedAtMostParallelTime ==
    /\ \A i \in DOMAIN task_results :
          (task_results[i].value.status = "completed"
                /\ task_results[i].value.execution_mode = "parallel")
             => WithinBound(task_results[i].value)
    /\ (response.op \in {"analyze_sync", "main"}
            /\ returned.of = "run_parallel_execution")
          => WithinBound(response)

\* a run with time spent outside the crew calls: the bound is strict
C29_Witness ==
    \E i \in DOMAIN task_results :
        LET v == task_results[i].value
        IN /\ v.status = "completed"
           /\ v.execution_mode = "parallel"
           /\ v.parallel_time > 0
           /\ v.analysis_time > 0
           /\ v.execution_time > v.parallel_time + v.analysis_time
           /\ v.time_saved < v.parallel_time
====
